---- MODULE Spec2Model ----
(***************************************************************************)
(* ClawDice: provably fair Lightning dice.                                 *)
(*                                                                         *)
(* A state-machine model of the wager server (server.js), the dice engine  *)
(* (dice.js), the game ledger (db.js), the configuration (config.js) and   *)
(* the payout stub (payout.js).                                            *)
(*                                                                         *)
(* Numbers.  JavaScript numbers are modelled by integers plus the value    *)
(* NaN.  The payout multiplier is a double in the code; here it is the     *)
(* exact rational 65536 * (1000 - edge) / (1000 * target), where edge is   *)
(* the house edge in thousandths, and floor and round are taken of exact   *)
(* products.  On every (edge, target, bet) this model draws, the exact     *)
(* value and the double computation of the code agree.                     *)
(*                                                                         *)
(* Hashes.  SHA-256 and HMAC-SHA256 are modelled by small arithmetic       *)
(* digests: deterministic, not the identity, and SHA256 is injective on    *)
(* the seeds of the model (collision resistance).                          *)
(***************************************************************************)
EXTENDS Integers, Sequences, FiniteSets, TLC

(***************************************************************************)
(* Bounds of the model.                                                    *)
(***************************************************************************)
\* HTTP requests served in one behaviour (each is one /roll or one /verify).
NumReqs == 2

Reqs == 1..NumReqs

(***************************************************************************)
(* State.                                                                  *)
(***************************************************************************)
VARIABLES
    config,   \* the configuration object, fixed when the process starts
    db,       \* db.js: the rows of table games of the in-memory database
    file,     \* the database file config.db.path on disk
    up,       \* the process is serving (initDb succeeded, app.listen ran)
    req       \* per HTTP request: position of its handler, locals, response

vars == <<config, db, file, up, req>>

(***************************************************************************)
(* JavaScript values.                                                      *)
(***************************************************************************)
\* The number NaN (parseInt of a string that is no numeral).
NaN == -2147483647

\* null / undefined.
Null == "null"

\* !x is false: the operand of || and of if (...) counts as present.
Truthy(x) == x # Null /\ x # ""

\* a < b on numbers: every comparison with NaN is false.
JsLt(a, b) == a # NaN /\ b # NaN /\ a < b

\* a > b on numbers.
JsGt(a, b) == a # NaN /\ b # NaN /\ a > b

\* The numerals of the model and the number each one denotes.
Numeral == ("-1" :> -1) @@ ("20" :> 20) @@ ("100" :> 100) @@ ("101" :> 101)
           @@ ("0" :> 0) @@ ("1" :> 1) @@ ("626" :> 626) @@ ("1000" :> 1000)
             @@ ("50000" :> 50000) @@ ("50001" :> 50001)
             @@ ("65535" :> 65535) @@ ("65536" :> 65536)

\* parseInt(x) of a string: a numeral gives its value, any other string NaN.
parseInt(x) == IF x \in DOMAIN Numeral THEN Numeral[x] ELSE NaN

\* Math.min(a, b): NaN if either is.
JsMin(a, b) == IF a = NaN \/ b = NaN THEN NaN ELSE IF a < b THEN a ELSE b

\* <<q, r>> with a * b = q * c + r and 0 <= r < c, for a, b >= 0 and c > 0,
\* computed by halving a so that no intermediate product leaves 32 bits.
RECURSIVE MulDivRem(_, _, _)
MulDivRem(a, b, c) ==
    IF a = 0 THEN <<0, 0>>
    ELSE LET h == MulDivRem(a \div 2, b, c)
             t == 2 * h[2] + (a % 2) * (b % c)
         IN  <<2 * h[1] + (a % 2) * (b \div c) + (t \div c), t % c>>

\* Math.floor(a * num / den) for a rational num / den > 0.
FloorMulDiv(a, num, den) ==
    IF a >= 0 THEN MulDivRem(a, num, den)[1]
    ELSE LET qr == MulDivRem(-a, num, den)
         IN  IF qr[2] = 0 THEN -qr[1] ELSE -qr[1] - 1

(***************************************************************************)
(* config.js                                                               *)
(***************************************************************************)
maxRoll == 65535
defaultTarget == 32768
defaultBet == 100
safetyFactor == 3

\* The configuration the process starts with: the defaults of config.js, and
\* what the environment variables NODE_ENV and MIN_BET change them to.  houseEdgeMilli is houseEdge * 1000.
DefaultConfig ==
    [houseEdgeMilli |-> 15, minBet |-> 10, maxBet |-> 50000,
     bankrollInitial |-> 1000000, pauseThreshold |-> 100000,
     devMode |-> TRUE]

Configs ==
    { DefaultConfig,
      [DefaultConfig EXCEPT !.devMode = FALSE],
      [DefaultConfig EXCEPT !.minBet = 1] }

\* getMultiplier with maxRoll for the number of rolls.
getMultiplier_OverMaxRoll(cfg, target) ==
    [num |-> maxRoll * (1000 - cfg.houseEdgeMilli), den |-> 1000 * target]

\* getMultiplier with the win probability for the fair multiplier.
getMultiplier_Probability(cfg, target) ==
    [num |-> target * (1000 - cfg.houseEdgeMilli), den |-> 1000 * (maxRoll + 1)]

\* config.game.getMultiplier(target), as the rational num / den.
getMultiplier(cfg, target) ==
    [num |-> (maxRoll + 1) * (1000 - cfg.houseEdgeMilli), den |-> 1000 * target]

\* config.game.getDynamicMaxBet(currentBankroll).
getDynamicMaxBet(cfg, currentBankroll) ==
    LET highestMultiplier == getMultiplier(cfg, 1)
        bankrollLimit ==
            FloorMulDiv(currentBankroll, highestMultiplier.den,
                        highestMultiplier.num * safetyFactor)
    IN  IF cfg.maxBet < bankrollLimit THEN cfg.maxBet ELSE bankrollLimit

(***************************************************************************)
(* dice.js                                                                 *)
(***************************************************************************)
\* The server seeds crypto.randomBytes(32) can return, as hex strings, and
\* the bytes of each as a number.
Seeds == {"01", "02"}

\* The preimages (client entropy) of the model.
Entropies == {"02", "04"}

Bytes == ("01" :> 1) @@ ("02" :> 2) @@ ("04" :> 4) @@ ("" :> 0)

\* generateServerSeed(): any seed.
generateServerSeed == Seeds

\* generateDevEntropy(): the entropy the development stub draws.
generateDevEntropy == {"04"}

\* SHA-256 of a string, as a number (the hex digest).
Sha256(s) == (Bytes[s] * 48271 + 11) % 65521

\* HMAC-SHA256(key, message): a 3-byte digest.
HmacSha256(key, message) ==
    LET x == (Bytes[key] * 7919 + Bytes[message] * 104729 + 6789) % 46337
    IN  (x * x + x) % 16777216

\* commitSeed(serverSeed).
commitSeed(serverSeed) == Sha256(serverSeed)

\* generateRoll with the number of recorded games mixed into the roll.
generateRoll_LedgerSalted(serverSeed, clientEntropy) ==
    (HmacSha256(serverSeed, clientEntropy) \div 256 + Len(db)) % (maxRoll + 1)

\* generateRoll(serverSeed, clientEntropy): the first 2 bytes of the digest
\* as a big-endian uint16.
generateRoll(serverSeed, clientEntropy) ==
    HmacSha256(serverSeed, clientEntropy) \div 256

\* The payout with Math.round for Math.floor.
PayoutOf_Rounded(betSats, multiplier) ==
    IF betSats = NaN THEN NaN
    ELSE LET qr == MulDivRem(betSats, multiplier.num, multiplier.den)
         IN  IF 2 * qr[2] >= multiplier.den THEN qr[1] + 1 ELSE qr[1]

\* Math.floor(betSats * multiplier), NaN when betSats is NaN.
PayoutOf(betSats, multiplier) ==
    IF betSats = NaN THEN NaN
    ELSE FloorMulDiv(betSats, multiplier.num, multiplier.den)

\* Math.round(multiplier * 1000) / 1000, in thousandths: the 1000 of the
\* denominator cancels, and round(x) is floor(x + 1/2).
RoundMilli(multiplier) ==
    LET n == multiplier.num
        d == multiplier.den \div 1000
    IN  (2 * n + d) \div (2 * d)

\* resolveGame with roll <= target for the win.
resolveGame_WinOnEqual(cfg, target, betSats, serverSeed, clientEntropy) ==
    LET roll == generateRoll(serverSeed, clientEntropy)
        win == JsLt(roll, target) \/ roll = target
        payoutSats ==
            IF win THEN PayoutOf(betSats, getMultiplier(cfg, target)) ELSE 0
    IN  [roll |-> roll,
         target |-> target,
         result |-> IF win THEN "win" ELSE "loss",
         betSats |-> betSats,
         multiplier |-> IF target = NaN THEN NaN
                        ELSE RoundMilli(getMultiplier(cfg, target)),
         payoutSats |-> payoutSats,
         serverSeed |-> serverSeed,
         serverSeedHash |-> commitSeed(serverSeed),
         clientEntropy |-> clientEntropy]

\* resolveGame with the branches of the payout swapped.
resolveGame_PayoutSwapped(cfg, target, betSats, serverSeed, clientEntropy) ==
    LET roll == generateRoll(serverSeed, clientEntropy)
        win == JsLt(roll, target)
        payoutSats ==
            IF win THEN 0
            ELSE IF target = NaN THEN NaN
            ELSE PayoutOf(betSats, getMultiplier(cfg, target))
    IN  [roll |-> roll,
         target |-> target,
         result |-> IF win THEN "win" ELSE "loss",
         betSats |-> betSats,
         multiplier |-> IF target = NaN THEN NaN
                        ELSE RoundMilli(getMultiplier(cfg, target)),
         payoutSats |-> payoutSats,
         serverSeed |-> serverSeed,
         serverSeedHash |-> commitSeed(serverSeed),
         clientEntropy |-> clientEntropy]

\* resolveGame({target, betSats, serverSeed, clientEntropy}).  With target
\* NaN the multiplier is NaN, the comparison is false and the game a loss.
resolveGame(cfg, target, betSats, serverSeed, clientEntropy) ==
    LET roll == generateRoll(serverSeed, clientEntropy)
        win == JsLt(roll, target)
        payoutSats ==
            IF win THEN PayoutOf(betSats, getMultiplier(cfg, target)) ELSE 0
    IN  [roll |-> roll,
         target |-> target,
         result |-> IF win THEN "win" ELSE "loss",
         betSats |-> betSats,
         multiplier |-> IF target = NaN THEN NaN
                        ELSE RoundMilli(getMultiplier(cfg, target)),
         payoutSats |-> payoutSats,
         serverSeed |-> serverSeed,
         serverSeedHash |-> commitSeed(serverSeed),
         clientEntropy |-> clientEntropy]

\* The two reasons verifyGame gives.
SeedMismatch == "Server seed does not match committed hash"
RollMismatch == "Roll does not match HMAC computation"

\* verifyGame with the roll checked before the commitment.
verifyGame_RollFirst(serverSeed, serverSeedHash, clientEntropy, roll, target) ==
    IF generateRoll(serverSeed, clientEntropy) # roll
    THEN [verified |-> FALSE, reason |-> RollMismatch, result |-> ""]
    ELSE IF commitSeed(serverSeed) # serverSeedHash
    THEN [verified |-> FALSE, reason |-> SeedMismatch, result |-> ""]
    ELSE [verified |-> TRUE, reason |-> "",
          result |-> IF JsLt(roll, target) THEN "win" ELSE "loss"]

\* verifyGame({serverSeed, serverSeedHash, clientEntropy, roll, target}).
verifyGame(serverSeed, serverSeedHash, clientEntropy, roll, target) ==
    IF commitSeed(serverSeed) # serverSeedHash
    THEN [verified |-> FALSE, reason |-> SeedMismatch, result |-> ""]
    ELSE IF generateRoll(serverSeed, clientEntropy) # roll
    THEN [verified |-> FALSE, reason |-> RollMismatch, result |-> ""]
    ELSE [verified |-> TRUE, reason |-> "",
          result |-> IF JsLt(roll, target) THEN "win" ELSE "loss"]

\* An HTTP request: the query parameters target, bet and pubkey, and the
\* headers authorization (split at ':') and x-player-pubkey.  An absent
\* parameter or header is the empty string (both are falsy in the code).
HttpRequest(target, bet, authorization, pubkeyHeader, pubkeyQuery) ==
    [target |-> target, bet |-> bet, authorization |-> authorization,
     pubkeyHeader |-> pubkeyHeader, pubkeyQuery |-> pubkeyQuery]

\* The requests GET /roll is sent: wagers the validation admits (the default
\* target and bet, a low target, a high stake, the smallest stake on the
\* highest target, a target some roll equals), and one request for each way
\* to be refused.
RollRequests ==
    { HttpRequest("", "", <<>>, "", ""),
      HttpRequest("", "", <<"L402 mac", " 04">>, "alice", ""),
      HttpRequest("1000", "1000", <<"L402 mac", "02">>, "", "alice"),
      HttpRequest("1000", "50000", <<"L402 mac", "02">>, "", ""),
      HttpRequest("65535", "1", <<"L402 mac", "02">>, "", ""),
      HttpRequest("626", "", <<"L402 mac", "02">>, "bob", ""),
      HttpRequest("0", "", <<"L402 mac", "02">>, "", ""),
      HttpRequest("65536", "", <<"L402 mac", "02">>, "", ""),
      HttpRequest("abc", "", <<"L402 mac", "02">>, "", ""),
      HttpRequest("", "50001", <<"L402 mac", "02">>, "", ""),
      HttpRequest("", "abc", <<"L402 mac", "02">>, "", ""),
      HttpRequest("", "", <<"L402 mac", "">>, "", ""),
      HttpRequest("", "", <<"Basic u", "02">>, "", "") }

\* generateGameId(): 'g_' and 4 random bytes in hex.
generateGameId == {"g_00000001", "g_00000002"}

\* String.prototype.trim.
Trim(s) == IF s = " 04" THEN "04" ELSE s

\* authHeader.startsWith('L402 ').
StartsWithL402(parts) == Len(parts) >= 1 /\ parts[1] = "L402 mac"

\* extractClientEntropy(req): the values it can return.
extractClientEntropy(cfg, auth) ==
    IF StartsWithL402(auth) /\ Len(auth) >= 2
    THEN {Trim(auth[Len(auth)])}
    ELSE IF cfg.devMode THEN generateDevEntropy
    ELSE {Null}

\* extractPlayerPubkey(req).
extractPlayerPubkey(q) ==
    IF Truthy(q.pubkeyHeader) THEN q.pubkeyHeader
    ELSE IF Truthy(q.pubkeyQuery) THEN q.pubkeyQuery
    ELSE Null

\* No game record (before the handler has built one).
NoGame ==
    [id |-> "", roll |-> 0, target |-> 0, result |-> "", betSats |-> 0,
     multiplier |-> 0, payoutSats |-> 0, serverSeed |-> "",
     serverSeedHash |-> 0, clientEntropy |-> "", payoutMethod |-> "",
     payoutStatus |-> "", playerPubkey |-> Null]

\* A request that has not arrived.  target and betSats are the constants of
\* that name of the handler of GET /roll, message is the message of a 500
\* answer, saveCalls and payoutCalls count the calls of saveGame and
\* sendPayout, body is what the read-only routes answer.
IdleReq ==
    [pc |-> "idle", route |-> "", status |-> 0, error |-> "",
     gameRecord |-> NoGame, payoutCalls |-> 0, events |-> <<>>,
     verified |-> FALSE, reason |-> "",
     target |-> 0, betSats |-> 0, message |-> "", saveCalls |-> 0,
     body |-> <<>>]

(***************************************************************************)
(* db.js                                                                   *)
(***************************************************************************)
\* RowOf with the seed and the entropy bound to each other's placeholder.
RowOf_SeedEntropySwapped(game) ==
    [id |-> game.id,
     roll |-> game.roll,
     target |-> game.target,
     result |-> game.result,
     bet_sats |-> game.betSats,
     multiplier |-> game.multiplier,
     payout_sats |-> game.payoutSats,
     payout_method |-> game.payoutMethod,
     payout_status |-> game.payoutStatus,
     server_seed |-> game.clientEntropy,
     server_seed_hash |-> game.serverSeedHash,
     client_entropy |-> game.serverSeed,
     player_pubkey |-> game.playerPubkey]

\* The row saveGame binds to its INSERT.
RowOf(game) ==
    [id |-> game.id,
     roll |-> game.roll,
     target |-> game.target,
     result |-> game.result,
     bet_sats |-> game.betSats,
     multiplier |-> game.multiplier,
     payout_sats |-> game.payoutSats,
     payout_method |-> IF Truthy(game.payoutMethod) THEN game.payoutMethod
                       ELSE "keysend",
     payout_status |-> IF Truthy(game.payoutStatus) THEN game.payoutStatus
                       ELSE IF game.result = "loss" THEN "n/a" ELSE "pending",
     server_seed |-> game.serverSeed,
     server_seed_hash |-> game.serverSeedHash,
     client_entropy |-> game.clientEntropy,
     player_pubkey |-> IF Truthy(game.playerPubkey) THEN game.playerPubkey
                       ELSE Null]

\* InsertOk for a table whose id is no key.
InsertOk_NoPrimaryKey(table, row) ==
    /\ row.roll # NaN /\ row.target # NaN /\ row.bet_sats # NaN
    /\ row.multiplier # NaN /\ row.payout_sats # NaN

\* The INSERT of saveGame succeeds: id is the PRIMARY KEY, and the numeric
\* NOT NULL columns refuse NaN, which SQLite binds as NULL.
InsertOk(table, row) ==
    /\ \A i \in 1..Len(table) : table[i].id # row.id
    /\ row.roll # NaN /\ row.target # NaN /\ row.bet_sats # NaN
    /\ row.multiplier # NaN /\ row.payout_sats # NaN

\* The message of the error db.run throws when the INSERT fails: SQLite
\* checks NOT NULL before the uniqueness of the key.
InsertError(table, row) ==
    IF row.roll = NaN \/ row.target = NaN \/ row.bet_sats = NaN
       \/ row.multiplier = NaN \/ row.payout_sats = NaN
    THEN "NOT NULL constraint failed"
    ELSE "UNIQUE constraint failed: games.id"

\* The message of the error fs.writeFileSync throws.
WriteError(outcome) ==
    IF outcome = "openFails" THEN "EACCES: permission denied, open"
    ELSE "ENOSPC: no space left on device, write"

\* datetime('now'), the DEFAULT of created_at, in seconds counted from the
\* first INSERT: the second of the INSERT before, or a later one.
Clock(table) ==
    IF table = <<>> THEN {0}
    ELSE {table[Len(table)].created_at, table[Len(table)].created_at + 1}

\* What fs.writeFileSync in saveDb can do: write the export, fail before the
\* file is opened, or fail after the file was truncated.
WriteOutcomes == {"ok", "openFails", "writeFails"}

\* saveGame(game) up to its call of saveDb: the table after the INSERT, at
\* second now.
saveGame(table, game, now) ==
    Append(table, RowOf(game) @@ [created_at |-> now])

\* saveDb that leaves the file as it was.
saveDb_FileUntouched(table, outcome, old) == old

\* saveDb(): the database file after it, given what fs.writeFileSync did.
saveDb(table, outcome, old) ==
    CASE outcome = "ok" -> [state |-> "db", games |-> table]
      [] outcome = "openFails" -> old
      [] OTHER -> [state |-> "partial", games |-> <<>>]

\* getGame(gameId): the row, or the empty set for null.
getGame(table, gameId) ==
    {table[i] : i \in {j \in 1..Len(table) : table[j].id = gameId}}

\* SUM(col) and MAX(col) over the first n rows of a table, 0 for no row (the
\* COALESCE of getStats; getLeaderboard has no group without a row).
RECURSIVE SumRange(_, _, _, _)
SumRange(table, col, lo, hi) ==
    IF lo > hi THEN 0
    ELSE IF lo = hi THEN table[lo][col]
    ELSE LET mid == (lo + hi) \div 2
         IN  SumRange(table, col, lo, mid) + SumRange(table, col, mid + 1, hi)

RECURSIVE MaxRange(_, _, _, _)
MaxRange(table, col, lo, hi) ==
    IF lo > hi THEN 0
    ELSE IF lo = hi THEN table[lo][col]
    ELSE LET mid == (lo + hi) \div 2
             a == MaxRange(table, col, lo, mid)
             b == MaxRange(table, col, mid + 1, hi)
         IN  IF a > b THEN a ELSE b

SumColumn(table, col, n) == SumRange(table, col, 1, n)

MaxColumn(table, col, n) == MaxRange(table, col, 1, n)

\* The values of player_pubkey that are not NULL.
Players(table) == {table[i].player_pubkey : i \in 1..Len(table)} \ {Null}

\* getStats with NULL counted as a player.
getStats_NullIsAPlayer(table) ==
    LET wagered == SumColumn(table, "bet_sats", Len(table))
        paidOut == SumColumn(table, "payout_sats", Len(table))
    IN  [total_games |-> Len(table),
         total_wagered_sats |-> wagered,
         total_paid_out_sats |-> paidOut,
         house_profit_sats |-> wagered - paidOut,
         unique_players |->
             Cardinality({table[i].player_pubkey : i \in 1..Len(table)}),
         biggest_win_sats |-> MaxColumn(table, "payout_sats", Len(table))]

\* getStats(), without last_24h.
getStats(table) ==
    LET wagered == SumColumn(table, "bet_sats", Len(table))
        paidOut == SumColumn(table, "payout_sats", Len(table))
    IN  [total_games |-> Len(table),
         total_wagered_sats |-> wagered,
         total_paid_out_sats |-> paidOut,
         house_profit_sats |-> wagered - paidOut,
         unique_players |-> Cardinality(Players(table)),
         biggest_win_sats |-> MaxColumn(table, "payout_sats", Len(table))]

\* The sequences that hold each row of a set once.
RECURSIVE Arrangements(_)
Arrangements(rows) ==
    IF rows = {} THEN {<<>>}
    ELSE UNION {{<<e>> \o t : t \in Arrangements(rows \ {e})} : e \in rows}

\* ORDER BY key DESC on a set of rows: every sequence of the rows whose key
\* never increases.  SQL leaves the order of rows with equal keys open.  The
\* rows are split at a median key, those above it before the others.
RECURSIVE OrdersBy(_, _)
OrdersBy(rows, key) ==
    LET keys == {e[key] : e \in rows} IN
    IF Cardinality(keys) <= 1 THEN Arrangements(rows)
    ELSE LET median == CHOOSE k \in keys :
                 Cardinality({x \in keys : x > k}) = Cardinality(keys) \div 2
             above == {e \in rows : e[key] > median}
         IN  {a \o b : a \in OrdersBy(above, key),
                       b \in OrdersBy(rows \ above, key)}

\* LIMIT ? on the rows of a query: a negative limit is no limit.
Limit(rows, limit) ==
    IF limit < 0 \/ limit >= Len(rows) THEN rows ELSE SubSeq(rows, 1, limit)

\* What db.exec gives for a query that ends in LIMIT ?, for each order of
\* the rows: the rows, or the error of a limit that is no integer (NaN is
\* bound as NULL).
Limited(orders, limit) ==
    IF limit = NaN THEN {[error |-> TRUE, rows |-> <<>>]}
    ELSE {[error |-> FALSE, rows |-> Limit(o, limit)] : o \in orders}

\* The row of getLeaderboard for a player.
LeaderboardEntry(table, player) ==
    LET mine == SelectSeq(table, LAMBDA g : g.player_pubkey = player)
        wagered == SumColumn(mine, "bet_sats", Len(mine))
        won == SumColumn(mine, "payout_sats", Len(mine))
    IN  [player_pubkey |-> player,
         games |-> Len(mine),
         total_wagered |-> wagered,
         total_won |-> won,
         net_profit |-> won - wagered,
         biggest_win |-> MaxColumn(mine, "payout_sats", Len(mine))]

\* getLeaderboard(limit): the results it can give.
getLeaderboard(table, limit) ==
    Limited(OrdersBy({LeaderboardEntry(table, p) : p \in Players(table)},
                     "net_profit"),
            limit)

\* The columns getRecentGames selects.
RecentColumns(g) ==
    [id |-> g.id, roll |-> g.roll, target |-> g.target, result |-> g.result,
     bet_sats |-> g.bet_sats, multiplier |-> g.multiplier,
     payout_sats |-> g.payout_sats, player_pubkey |-> g.player_pubkey,
     created_at |-> g.created_at]

\* getRecentGames(limit): the results it can give.
getRecentGames(table, limit) ==
    Limited(OrdersBy({RecentColumns(table[i]) : i \in 1..Len(table)},
                     "created_at"),
            limit)

(***************************************************************************)
(* server.js                                                               *)
(***************************************************************************)
Init ==
    /\ config \in Configs
    /\ db = <<>>
    /\ file = [state |-> "absent", games |-> <<>>]
    /\ up = TRUE
    /\ req = [r \in Reqs |-> IdleReq]

\* Request r arrives and its handler starts.  The requests are numbered in
\* the order of their arrival.  No handler starts while another one waits at
\* its await: the promise of sendPayout is settled when it is returned (the
\* stub does no I/O), so the continuation is a microtask, and Node runs it
\* before the I/O callback that starts the next handler.
Arrives(r) ==
    /\ up
    /\ req[r].pc = "idle"
    /\ \A q \in Reqs : q < r => req[q].pc # "idle"
    /\ \A q \in Reqs : req[q].pc # "awaitPayout"

\* res.status(s).json({error: e}) of GET /roll before a game exists.
Reject(r, target, betSats, s, e) ==
    /\ req' = [req EXCEPT ![r] = [@ EXCEPT !.pc = "done", !.route = "roll",
                                            !.status = s, !.error = e,
                                            !.target = target,
                                            !.betSats = betSats]]
    /\ UNCHANGED <<config, db, file, up>>

\* gameRecord with payoutStatus pending for a loss too.
GameRecord_AlwaysPending(gameId, gameResult, payoutMethod, playerPubkey) ==
    [id |-> gameId,
     roll |-> gameResult.roll,
     target |-> gameResult.target,
     result |-> gameResult.result,
     betSats |-> gameResult.betSats,
     multiplier |-> gameResult.multiplier,
     payoutSats |-> gameResult.payoutSats,
     serverSeed |-> gameResult.serverSeed,
     serverSeedHash |-> gameResult.serverSeedHash,
     clientEntropy |-> gameResult.clientEntropy,
     payoutMethod |-> payoutMethod,
     payoutStatus |-> "pending",
     playerPubkey |-> playerPubkey]

\* The gameRecord object GET /roll builds from the result of resolveGame.
GameRecord(gameId, gameResult, payoutMethod, playerPubkey) ==
    [id |-> gameId,
     roll |-> gameResult.roll,
     target |-> gameResult.target,
     result |-> gameResult.result,
     betSats |-> gameResult.betSats,
     multiplier |-> gameResult.multiplier,
     payoutSats |-> gameResult.payoutSats,
     serverSeed |-> gameResult.serverSeed,
     serverSeedHash |-> gameResult.serverSeedHash,
     clientEntropy |-> gameResult.clientEntropy,
     payoutMethod |-> payoutMethod,
     payoutStatus |-> IF gameResult.result = "loss" THEN "n/a" ELSE "pending",
     playerPubkey |-> playerPubkey]

\* The values of something saveGame reads only once its INSERT has
\* succeeded: all of them, or any one of them when the INSERT throws.
AfterInsert(table, game, values) ==
    IF InsertOk(table, RowOf(game)) THEN values
    ELSE {CHOOSE v \in values : TRUE}

\* GET /roll from saveGame(gameRecord) on, in a handler that has extracted
\* the entropy, generated the seed and resolved the game: saveGame, and then
\* the response, the 500 of the catch, or the await of sendPayout.
SaveAndPay(r, gameRecord, io, now) ==
    LET resolved == <<"entropy", "seed", "commit">>
        mine == [req[r] EXCEPT !.route = "roll", !.gameRecord = gameRecord,
                               !.target = gameRecord.target,
                               !.betSats = gameRecord.betSats,
                               !.saveCalls = @ + 1]
        failed == [req[r] EXCEPT !.route = "roll", !.pc = "done",
                                 !.status = 500, !.error = "internal",
                                 !.events = resolved,
                                 !.target = gameRecord.target,
                                 !.betSats = gameRecord.betSats,
                                 !.saveCalls = @ + 1]
    IN
    IF ~InsertOk(db, RowOf(gameRecord))
    THEN \* db.run throws
         /\ req' = [req EXCEPT ![r] =
                      [failed EXCEPT
                         !.message = InsertError(db, RowOf(gameRecord))]]
         /\ UNCHANGED <<config, db, file, up>>
    ELSE /\ db' = saveGame(db, gameRecord, now)
         /\ file' = saveDb(db', io, file)
         /\ UNCHANGED <<config, up>>
         /\ IF io # "ok"
            THEN \* fs.writeFileSync throws, after the INSERT
                 req' = [req EXCEPT ![r] =
                           [failed EXCEPT !.message = WriteError(io)]]
            ELSE IF gameRecord.result = "win" /\ JsGt(gameRecord.payoutSats, 0)
            THEN \* await sendPayout(...)
                 req' = [req EXCEPT ![r] =
                           [mine EXCEPT !.pc = "awaitPayout",
                                        !.payoutCalls = @ + 1,
                                        !.events = resolved
                                                   \o <<"saved", "payout">>]]
            ELSE req' = [req EXCEPT ![r] =
                           [mine EXCEPT !.pc = "done", !.status = 200,
                                        !.events = resolved \o <<"saved">>]]

\* GET /roll from the arrival of the request to its response, or to the
\* await of sendPayout.
Roll(r) ==
    /\ Arrives(r)
    /\ \E q \in RollRequests :
       \E target \in {IF Truthy(q.target) THEN parseInt(q.target)
                      ELSE defaultTarget},
          betSats \in {IF Truthy(q.bet) THEN parseInt(q.bet) ELSE defaultBet} :
        IF JsLt(target, 1) \/ JsGt(target, maxRoll)
        THEN Reject(r, target, betSats, 400, "invalid_target")
        ELSE IF JsLt(betSats, config.minBet) \/ JsGt(betSats, config.maxBet)
        THEN Reject(r, target, betSats, 400, "invalid_bet")
        ELSE \E clientEntropy \in extractClientEntropy(config, q.authorization) :
            IF ~Truthy(clientEntropy)
            THEN Reject(r, target, betSats, 402, "payment_required")
            ELSE \E serverSeed \in generateServerSeed :
                 \E gameResult \in {resolveGame(config, target, betSats,
                                                serverSeed, clientEntropy)} :
                 \E gameId \in generateGameId :
                 \E gameRecord \in {GameRecord(gameId, gameResult, "keysend",
                                               extractPlayerPubkey(q))} :
                 \E io \in AfterInsert(db, gameRecord, WriteOutcomes),
                    now \in AfterInsert(db, gameRecord, Clock(db)) :
                    SaveAndPay(r, gameRecord, io, now)

\* sendPayout({pubkey, amountSats, gameId}): the stub resolves in dev mode
\* and throws in production.
sendPayout(cfg) == IF cfg.devMode THEN "sent" ELSE "failed"

\* PayoutSettled with a failed delivery that takes the game back: the row is
\* deleted and the answer is a 500.
PayoutSettled_Unwinds(r) ==
    /\ up
    /\ req[r].pc = "awaitPayout"
    /\ IF sendPayout(config) = "failed"
       THEN /\ req' = [req EXCEPT ![r] =
                         [@ EXCEPT !.pc = "done", !.status = 500,
                                   !.error = "internal"]]
            /\ db' = SelectSeq(db, LAMBDA g : g.id # req[r].gameRecord.id)
            /\ file' = saveDb(db', "ok", file)
            /\ UNCHANGED <<config, up>>
       ELSE /\ req' = [req EXCEPT ![r] =
                         [@ EXCEPT !.pc = "done", !.status = 200,
                                   !.gameRecord.payoutStatus = "sent"]]
            /\ UNCHANGED <<config, db, file, up>>

\* GET /roll from the settlement of sendPayout to the response.
PayoutSettled(r) ==
    /\ up
    /\ req[r].pc = "awaitPayout"
    /\ req' = [req EXCEPT ![r] =
                 [@ EXCEPT !.pc = "done", !.status = 200,
                           !.gameRecord.payoutStatus = sendPayout(config)]]
    /\ UNCHANGED <<config, db, file, up>>

\* What GET /verify/:gameId answers on a table.
VerifyResponse(table, gameId) ==
    LET found == getGame(table, gameId) IN
    IF found = {}
    THEN [status |-> 404, error |-> "not_found", verified |-> FALSE,
          reason |-> ""]
    ELSE LET game == CHOOSE g \in found : TRUE
             verification ==
                 verifyGame(game.server_seed, game.server_seed_hash,
                            game.client_entropy, game.roll, game.target)
         IN  [status |-> 200, error |-> "",
              verified |-> verification.verified,
              reason |-> verification.reason]

\* GET /verify/:gameId.
Verify(r) ==
    /\ Arrives(r)
    /\ \E gameId \in generateGameId :
       \E res \in {VerifyResponse(db, gameId)} :
        req' = [req EXCEPT ![r] =
                  [@ EXCEPT !.pc = "done", !.route = "verify",
                            !.status = res.status, !.error = res.error,
                            !.gameRecord.id = gameId,
                            !.verified = res.verified,
                            !.reason = res.reason]]
    /\ UNCHANGED <<config, db, file, up>>

\* GET /stats.
Stats(r) ==
    /\ Arrives(r)
    /\ req' = [req EXCEPT ![r] =
                 [@ EXCEPT !.pc = "done", !.route = "stats", !.status = 200,
                           !.body = <<getStats(db)>>]]
    /\ UNCHANGED <<config, db, file, up>>

\* The values of the query parameter limit: absent, zero, negative, one,
\* above 100, not a number.
LimitQueries == {"", "0", "-1", "1", "101", "abc"}

\* The cap of the limit of GET /leaderboard and GET /recent.
MaxLimit == 100

\* Math.min(parseInt(req.query.limit || '20'), 100).
LimitOf(q) == JsMin(parseInt(IF Truthy(q) THEN q ELSE "20"), MaxLimit)

\* The answer of a route that sends the result of a query: the rows, or the
\* 500 of Express when db.exec throws.
Feed(r, route, res) ==
    /\ req' = [req EXCEPT ![r] =
                 [@ EXCEPT !.pc = "done", !.route = route,
                           !.status = IF res.error THEN 500 ELSE 200,
                           !.body = res.rows]]
    /\ UNCHANGED <<config, db, file, up>>

\* GET /leaderboard.
Leaderboard(r) ==
    /\ Arrives(r)
    /\ \E q \in LimitQueries :
       \E res \in getLeaderboard(db, LimitOf(q)) : Feed(r, "leaderboard", res)

\* GET /recent.
Recent(r) ==
    /\ Arrives(r)
    /\ \E q \in LimitQueries :
       \E res \in getRecentGames(db, LimitOf(q)) : Feed(r, "recent", res)

\* The process is stopped and started again: start() runs initDb(), which
\* loads the database file if it exists.  A file left partial by a failed
\* write is either empty (SQLite opens it as a new database) or no database
\* (initDb throws and the server never listens).  The handlers in flight
\* die without a response.
Restart ==
    /\ \E emptyFile \in IF file.state = "partial" THEN BOOLEAN ELSE {TRUE} :
        /\ db' = IF file.state = "db" THEN file.games ELSE <<>>
        /\ up' = (file.state # "partial" \/ emptyFile)
    /\ req' = [r \in Reqs |->
                 IF req[r].pc = "awaitPayout"
                 THEN [req[r] EXCEPT !.pc = "done"]
                 ELSE req[r]]
    /\ UNCHANGED <<config, file>>

\* The routes that play and verify games.
NextGame ==
    \/ \E r \in Reqs : Roll(r)
    \/ \E r \in Reqs : PayoutSettled(r)
    \/ \E r \in Reqs : Verify(r)

Next ==
    \/ NextGame
    \/ \E r \in Reqs : Stats(r)
    \/ \E r \in Reqs : Leaderboard(r)
    \/ \E r \in Reqs : Recent(r)

Spec == Init /\ [][Next]_vars

NextRestart ==
    \/ Next
    \/ Restart

SpecRestart == Init /\ [][NextRestart]_vars

(***************************************************************************)
(* The ledger as a verifier sees it.                                       *)
(***************************************************************************)
\* The identifiers of the rows of a table.
Ids(table) == {table[i].id : i \in 1..Len(table)}

\* The rows of the ledger.
Rows == {db[i] : i \in 1..Len(db)}

\* verifyGame on the fields of a row, as GET /verify calls it.
VerifyRow(game) ==
    verifyGame(game.server_seed, game.server_seed_hash, game.client_entropy,
               game.roll, game.target)

\* Request r is a GET /roll answered 200.
RollOk(r) == req[r].route = "roll" /\ req[r].status = 200

(***************************************************************************)
(* C1.  Commit before reveal.                                              *)
(***************************************************************************)
\* C1: in every GET /roll, the server seed is generated and its commitment
\* computed before the client entropy of that wager is known to the server:
\* in the order of the handler's steps, "commit" comes before "entropy".
C1_CommitBeforeEntropy ==
    \A r \in Reqs :
        \A i \in 1..Len(req[r].events) :
            req[r].events[i] = "entropy" =>
                \E j \in 1..(i - 1) : req[r].events[j] = "commit"

(***************************************************************************)
(* C2.  Every record of the ledger verifies.                               *)
(***************************************************************************)
\* C2: every row of the ledger has server_seed_hash = commitSeed(server_seed)
\* and roll = generateRoll(server_seed, client_entropy), GET /verify answers
\* 200 with verified = true for every game_id a successful GET /roll has
\* returned, and no GET /verify of a stored game has answered otherwise.
C2_LedgerVerifies ==
    /\ \A game \in Rows :
        /\ game.server_seed_hash = commitSeed(game.server_seed)
        /\ game.roll = generateRoll(game.server_seed, game.client_entropy)
    /\ \A r \in Reqs :
        RollOk(r) =>
            LET res == VerifyResponse(db, req[r].gameRecord.id)
            IN  res.status = 200 /\ res.verified
    /\ \A r \in Reqs :
        (req[r].route = "verify" /\ req[r].status = 200) => req[r].verified

\* C2 witness: a game a GET /roll returned has been verified by GET /verify.
C2_Witness ==
    \E r, v \in Reqs :
        /\ RollOk(r)
        /\ req[v].route = "verify" /\ req[v].status = 200 /\ req[v].verified
        /\ req[v].gameRecord.id = req[r].gameRecord.id

(***************************************************************************)
(* C3.  A tampered record fails verification, with the reason of the first *)
(* check that fails.                                                       *)
(***************************************************************************)
\* The store is tampered with, as the test suite tampers with a game: in
\* one record that is still as GET /roll returned it, the revealed seed is
\* replaced by a different seed, or the roll by (roll + 1) % 65536, or both.
\* One record is tampered with in a behaviour, between two handlers, while a
\* request that can read it is still to come.
Untampered == \A game \in Rows : VerifyRow(game).verified

Tamper ==
    /\ \E r \in Reqs : req[r].pc = "idle"
    /\ \A r \in Reqs : req[r].pc # "awaitPayout"
    /\ Untampered
    /\ \E i \in 1..Len(db), kind \in {"seed", "roll", "both"},
          wrongSeed \in generateServerSeed :
        /\ wrongSeed # db[i].server_seed
        /\ \E r \in Reqs : RollOk(r) /\ req[r].gameRecord.id = db[i].id
        /\ db' = [db EXCEPT
                    ![i].server_seed =
                        IF kind \in {"seed", "both"} THEN wrongSeed ELSE @,
                    ![i].roll =
                        IF kind \in {"roll", "both"}
                        THEN (@ + 1) % (maxRoll + 1) ELSE @]
    /\ UNCHANGED <<config, file, up, req>>

\* Games are played and verified, a record is tampered with, and from then
\* on the store is only read, by GET /verify.
NextTamper ==
    \/ Untampered /\ NextGame
    \/ Tamper
    \/ ~Untampered /\ \E r \in Reqs : Verify(r)

SpecTamper == Init /\ [][NextTamper]_vars

\* The reasons the specification words for the two mismatches.
SpecSeedReason == "seed/hash mismatch"
SpecOutcomeReason == "outcome mismatch"

\* What verifyGame answers on the stored record of every game GET /roll
\* returned: with the secret replaced, not verified, for reason seedReason
\* (also when the outcome is replaced too); with the secret intact and the
\* outcome replaced, not verified, for reason rollReason.
TamperReported(seedReason, rollReason) ==
    \A r \in Reqs :
        RollOk(r) =>
            \A game \in getGame(db, req[r].gameRecord.id) :
                LET returned == req[r].gameRecord
                    v == VerifyRow(game)
                IN  /\ game.server_seed # returned.serverSeed =>
                            ~v.verified /\ v.reason = seedReason
                    /\ (game.server_seed = returned.serverSeed
                        /\ game.roll # returned.roll) =>
                            ~v.verified /\ v.reason = rollReason

\* C3 as stated: a replaced secret is reported as "seed/hash mismatch", a
\* replaced outcome as "outcome mismatch", the first taking precedence.
C3_SpecReasons == TamperReported(SpecSeedReason, SpecOutcomeReason)

\* C3 as amended: a replaced secret is reported as 'Server seed does not
\* match committed hash', a replaced outcome as 'Roll does not match HMAC
\* computation', and a record with both replaced reports the first.
C3_TamperReported == TamperReported(SeedMismatch, RollMismatch)

\* C3 witness: GET /verify has answered on a record with both the secret and
\* the outcome replaced, and reported the seed.
C3_Witness ==
    \E r, v \in Reqs :
        /\ RollOk(r)
        /\ req[v].route = "verify" /\ req[v].status = 200
        /\ req[v].gameRecord.id = req[r].gameRecord.id
        /\ ~req[v].verified /\ req[v].reason = SeedMismatch
        /\ \E game \in getGame(db, req[r].gameRecord.id) :
            /\ game.server_seed # req[r].gameRecord.serverSeed
            /\ game.roll # req[r].gameRecord.roll

(***************************************************************************)
(* C4.  Win exactly when roll < target; a loss pays nothing.               *)
(***************************************************************************)
\* The game records the handlers of GET /roll hold or have answered with:
\* what resolveGame returned, with the id and the payout fields added.
Resolved ==
    {req[r].gameRecord :
        r \in {q \in Reqs : req[q].route = "roll" /\ req[q].gameRecord.id # ""}}

\* Targets and stakes at the ends of their ranges and next to the rolls.
BoundaryTargets == {1, 626, 627, 32768, maxRoll}
BoundaryBets == {1, 100, 50000}

\* C4: for every target, stake, seed and entropy of the sets above, for
\* every game resolveGame returned to GET /roll and every row of the
\* ledger, with its target in [1, 65535]: the result is win exactly when
\* roll < target and loss otherwise, and a loss has payout 0.
C4_WinIffRollBelowTarget ==
    /\ (db = <<>> /\ \A r \in Reqs : req[r].pc = "idle") =>
        \* resolveGame is a function of its arguments and the configuration:
        \* its domain is gone through once, in the initial states.
        \A target \in BoundaryTargets, betSats \in BoundaryBets,
           serverSeed \in Seeds, clientEntropy \in Entropies :
            LET game == resolveGame(config, target, betSats, serverSeed,
                                    clientEntropy)
            IN  /\ game.result =
                       (IF game.roll < target THEN "win" ELSE "loss")
                /\ game.result = "loss" => game.payoutSats = 0
    /\ \A game \in Resolved :
        /\ game.target \in 1..maxRoll
        /\ game.result = (IF game.roll < game.target THEN "win" ELSE "loss")
        /\ game.result = "loss" => game.payoutSats = 0
    /\ \A game \in Rows :
        /\ game.target \in 1..maxRoll
        /\ game.result = (IF game.roll < game.target THEN "win" ELSE "loss")
        /\ game.result = "loss" => game.payout_sats = 0

\* C4 witness: the ledger holds a win and a loss whose roll equals its target.
C4_Witness ==
    /\ \E game \in Rows : game.result = "win" /\ game.payout_sats > 0
    /\ \E game \in Rows : game.result = "loss" /\ game.roll = game.target

(***************************************************************************)
(* C5.  The payout of a win against the stored multiplier.                 *)
(***************************************************************************)
\* Math.floor(stake * multiplier) for a multiplier stored in thousandths.
FloorOfStored(stake, multiplierMilli) == FloorMulDiv(stake, multiplierMilli, 1000)

\* C5: for every win, payoutSats = floor(betSats * multiplier) with the
\* multiplier field of that same record, in what resolveGame returns and in
\* the ledger.
C5_PayoutFromStoredMultiplier ==
    /\ \A game \in Resolved :
        game.result = "win" =>
            game.payoutSats = FloorOfStored(game.betSats, game.multiplier)
    /\ \A game \in Rows :
        game.result = "win" =>
            game.payout_sats = FloorOfStored(game.bet_sats, game.multiplier)

(***************************************************************************)
(* C6.  Payout nonzero iff win.                                            *)
(***************************************************************************)
\* The smallest stake pays at least 1 sat on the target that pays least.
SmallestWinPays ==
    PayoutOf(config.minBet, getMultiplier(config, maxRoll)) >= 1

RECURSIVE NetOfWagers(_)
NetOfWagers(table) ==
    IF table = <<>> THEN 0
    ELSE (Head(table).bet_sats - Head(table).payout_sats)
         + NetOfWagers(Tail(table))

\* The bankroll after the wagers of a table.
Bankroll(table) == config.bankrollInitial + NetOfWagers(table)

\* The bankroll when row i of the ledger was admitted.
BankrollBefore(i) == Bankroll(SubSeq(db, 1, i - 1))

(***************************************************************************)
(* C7.  Exposure guard.                                                    *)
(***************************************************************************)
\* C7: no row of the ledger has a stake above the effective ceiling
\* min(maxBet, floor(bankroll / getMultiplier(1) / safetyFactor)) of the
\* bankroll at its admission.
C7_StakeWithinCeiling ==
    \A i \in 1..Len(db) :
        db[i].bet_sats <= getDynamicMaxBet(config, BankrollBefore(i))

(***************************************************************************)
(* C8.  Concurrent admission.                                              *)
(***************************************************************************)
\* What a wager pays if it wins.
Liability(game) == PayoutOf(game.betSats, getMultiplier(config, game.target))

RECURSIVE LiabilityOfFirst(_)
LiabilityOfFirst(n) ==
    IF n = 0 THEN 0
    ELSE Liability(req[n].gameRecord) + LiabilityOfFirst(n - 1)

\* C8: the N requests of GET /roll the server has at once (it runs their
\* handlers one after the other, each up to its await) are never all
\* admitted and resolved when their combined worst-case liability exceeds
\* the bankroll they were admitted against.
C8_OneRejected ==
    ~ /\ \A r \in Reqs : req[r].route = "roll" /\ req[r].gameRecord.id # ""
      /\ LiabilityOfFirst(NumReqs) > config.bankrollInitial

(***************************************************************************)
(* C9.  Auto-pause.                                                        *)
(***************************************************************************)
\* C9: no row of the ledger was recorded with the bankroll at or below
\* pauseThreshold at its admission.
C9_PausedAtThreshold ==
    \A i \in 1..Len(db) : BankrollBefore(i) > config.pauseThreshold

(***************************************************************************)
(* C10.  Durable before the answer.                                        *)
(***************************************************************************)
\* A table of the database file holds the record of request r.
Durable(r, table, onDisk) ==
    /\ req'[r].gameRecord.id \in Ids(table)
    /\ onDisk.state = "db"
    /\ req'[r].gameRecord.id \in Ids(onDisk.games)

\* The step is one of GET /roll for request r, past the validation of the
\* request and the extraction of the entropy.
RollResolves(r) ==
    /\ req[r].pc = "idle"
    /\ req'[r].route = "roll"
    /\ req'[r].status \notin {400, 402}

\* saveGame threw in the step: the INSERT left the table as it was, or the
\* file is not the export of the table.
SaveGameFailed ==
    db' = db \/ file' # [state |-> "db", games |-> db']

\* C10: a step in which GET /roll answers 200, or calls sendPayout, leaves
\* the record of that game in the table and in the database file; a step in
\* which saveGame fails answers 500 and calls no sendPayout; and a restart
\* loads every record the file holds, those of the 200 answers among them.
C10_DurableBeforeAnswer ==
    [][ /\ \A r \in Reqs :
            /\ (req[r].status # 200 /\ req'[r].route = "roll"
                                    /\ req'[r].status = 200)
                   => Durable(r, db', file')
            /\ req'[r].payoutCalls > req[r].payoutCalls
                   => Durable(r, db', file')
            /\ (RollResolves(r) /\ SaveGameFailed)
                   => /\ req'[r].pc = "done"
                      /\ req'[r].status = 500
                      /\ req'[r].payoutCalls = 0
        /\ Restart =>
            \A r \in Reqs :
                (RollOk(r) /\ file.state = "db"
                           /\ req[r].gameRecord.id \in Ids(file.games))
                    => req[r].gameRecord.id \in Ids(db')
      ]_vars

\* C10 witness: a GET /roll was answered 200, a later one was killed at its
\* await by a restart, and the record of the first is in the table initDb
\* loaded and in the file.
C10_Witness ==
    \E r, q \in Reqs :
        /\ r < q
        /\ RollOk(r)
        /\ req[q].route = "roll" /\ req[q].pc = "done" /\ req[q].status = 0
        /\ req[r].gameRecord.id \in Ids(db)
        /\ req[r].gameRecord.id \in Ids(file.games)

(***************************************************************************)
(* C11.  The persisted payout status follows the delivery.                 *)
(***************************************************************************)
\* C11: the row of a win is written with payout_status pending, and once
\* GET /roll has answered with payout_status sent or failed, the row of that
\* game in the ledger has that status, and is not pending any more.
C11_PersistedStatusUpdated ==
    \A r \in Reqs :
        /\ req[r].pc = "awaitPayout" =>
            \A game \in getGame(db, req[r].gameRecord.id) :
                game.payout_status = "pending"
        /\ (RollOk(r) /\ req[r].gameRecord.payoutStatus \in {"sent", "failed"})
            => \A game \in getGame(db, req[r].gameRecord.id) :
                game.payout_status = req[r].gameRecord.payoutStatus

(***************************************************************************)
(* C12.  A failed delivery does not unwind the game.                       *)
(***************************************************************************)
\* The fields of a game record and of its row that resolveGame decided.
SameResolution(game, row) ==
    /\ row.id = game.id /\ row.roll = game.roll /\ row.target = game.target
    /\ row.result = game.result /\ row.bet_sats = game.betSats
    /\ row.multiplier = game.multiplier /\ row.payout_sats = game.payoutSats
    /\ row.server_seed = game.serverSeed
    /\ row.server_seed_hash = game.serverSeedHash
    /\ row.client_entropy = game.clientEntropy

\* C12: in production, where sendPayout throws, the step from the await of
\* sendPayout to the response answers 200 with payout_status failed and the
\* roll, result and payout decided before; it leaves the table and the file
\* as they were, and the row of the game agrees with the answer.
C12_DeliveryFailureKeepsGame ==
    [][ \A r \in Reqs :
          (~config.devMode /\ req[r].pc = "awaitPayout" /\ req'[r].pc = "done")
          => /\ req'[r].status = 200
             /\ req'[r].gameRecord.payoutStatus = "failed"
             /\ req'[r].gameRecord =
                    [req[r].gameRecord EXCEPT !.payoutStatus = "failed"]
             /\ db' = db /\ file' = file
             /\ \E row \in getGame(db', req[r].gameRecord.id) :
                    SameResolution(req'[r].gameRecord, row)
      ]_vars

\* C12 witness: in production a win was answered 200 with payout_status
\* failed and its row is in the ledger.
C12_Witness ==
    /\ ~config.devMode
    /\ \E r \in Reqs :
        /\ RollOk(r)
        /\ req[r].gameRecord.result = "win"
        /\ req[r].gameRecord.payoutStatus = "failed"
        /\ req[r].payoutCalls = 1
        /\ \E row \in Rows : SameResolution(req[r].gameRecord, row)

(***************************************************************************)
(* C13.  The ledger is append-only.                                        *)
(***************************************************************************)
\* C13: the record of every game GET /roll has answered 200 with is in the
\* ledger, with the resolution it was answered with.
C13_ReportedStays ==
    \A r \in Reqs :
        RollOk(r) => \E row \in Rows : SameResolution(req[r].gameRecord, row)

(***************************************************************************)
(* C14.  A colliding identifier is an internal error.                      *)
(***************************************************************************)
UniqueError == "UNIQUE constraint failed: games.id"

\* C14: no step leaves two rows with one id in the table or changes a row
\* the table has; the step of a GET /roll whose INSERT fails on the key
\* answers 500 internal, calls no sendPayout and leaves table and file as
\* they were.
C14_CollisionIsInternalError ==
    [][ /\ \A i, j \in 1..Len(db') : db'[i].id = db'[j].id => i = j
        /\ Len(db') >= Len(db)
        /\ \A i \in 1..Len(db) : db'[i] = db[i]
        /\ \A r \in Reqs :
            (req[r].pc = "idle" /\ req'[r].message = UniqueError)
            => /\ req'[r].pc = "done" /\ req'[r].status = 500
               /\ req'[r].error = "internal"
               /\ req'[r].payoutCalls = 0
               /\ db' = db /\ file' = file
      ]_vars

\* C14 witness: one GET /roll was answered 200, a second one drew the same
\* id and was answered 500, and the row of the first is as it was answered.
C14_Witness ==
    \E r, q \in Reqs :
        /\ RollOk(r)
        /\ req[q].route = "roll" /\ req[q].status = 500
        /\ req[q].message = UniqueError /\ req[q].payoutCalls = 0
        /\ Len(db) = 1
        /\ SameResolution(req[r].gameRecord, db[1])

(***************************************************************************)
(* C15.  Failed writes are retried.                                        *)
(***************************************************************************)
\* C15: a GET /roll answers 500 for a write of the database file that
\* failed only after more than one call of saveGame.
C15_WriteRetried ==
    \A r \in Reqs :
        (/\ req[r].route = "roll" /\ req[r].status = 500
         /\ req[r].message \in {WriteError(io) : io \in WriteOutcomes \ {"ok"}})
        => req[r].saveCalls > 1

(***************************************************************************)
(* C16.  The validation gate.                                              *)
(***************************************************************************)
ValidTarget(x) == x # NaN /\ x >= 1 /\ x <= maxRoll
ValidBet(x) == x # NaN /\ x >= config.minBet /\ x <= config.maxBet

\* C16: a GET /roll whose target is no integer in [1, 65535] is answered 400
\* invalid_target, one whose bet is no integer in [minBet, maxBet] is
\* answered 400 invalid_bet; a request answered 400 or 402 has generated no
\* seed, called neither saveGame nor sendPayout and written no row; every
\* row has its target in [1, 65535] and its stake in [minBet, maxBet].
C16_ValidationGate ==
    /\ \A r \in Reqs :
        req[r].route = "roll" =>
            /\ ~ValidTarget(req[r].target)
                => req[r].status = 400 /\ req[r].error = "invalid_target"
            /\ (ValidTarget(req[r].target) /\ ~ValidBet(req[r].betSats))
                => req[r].status = 400 /\ req[r].error = "invalid_bet"
            /\ req[r].status \in {400, 402}
                => /\ req[r].events = <<>>
                   /\ req[r].saveCalls = 0 /\ req[r].payoutCalls = 0
    /\ \A game \in Rows : ValidTarget(game.target) /\ ValidBet(game.bet_sats)

(***************************************************************************)
(* C17.  The leaderboard and its ties.                                     *)
(***************************************************************************)
\* The players that send requests, in the ascending order of their ids.
PubkeyOrder == ("alice" :> 1) @@ ("bob" :> 2)

LedgerRow(i) ==
    RowOf(GameRecord("g_" \o ToString(i),
                     resolveGame(DefaultConfig, defaultTarget, defaultBet + i,
                                 "01", "02"),
                     "keysend", "p" \o ToString(i)))
    @@ [created_at |-> i]

Ledger(n) == [i \in 1..n |-> LedgerRow(i)]

\* Ledgers below, at and above the cap.
LedgerSizes == {0, 1, MaxLimit, MaxLimit + 1}

\* The server with a ledger of one of these sizes in its database file.
InitLedger ==
    /\ config = DefaultConfig
    /\ db \in {Ledger(n) : n \in LedgerSizes}
    /\ file = [state |-> "db", games |-> db]
    /\ up = TRUE
    /\ req = [r \in Reqs |-> IdleReq]

NextLedger ==
    \/ \E r \in Reqs : Stats(r)
    \/ \E r \in Reqs : Leaderboard(r)
    \/ \E r \in Reqs : Recent(r)

SpecLedger == InitLedger /\ [][NextLedger]_vars

\* C18: every answer of GET /leaderboard and GET /recent has at most 100
\* entries.
C18_AtMostMaxLimit ==
    \A r \in Reqs :
        req[r].route \in {"leaderboard", "recent"}
            => Len(req[r].body) <= MaxLimit

(***************************************************************************)
(* C19.  The recent games, newest first.                                   *)
(***************************************************************************)
\* The position of the row with an id in the table: the order of the calls
\* of saveGame.
Position(id) == CHOOSE i \in 1..Len(db) : db[i].id = id

C20_StatsMatchLedger ==
    [][ LET before == getStats(db)
            after == getStats(db')
            added == db'[Len(db')]
        IN  /\ (db' # db \/ db' = <<>>) =>
                 \* the table of this step, and the empty table of the start
                 /\ after.total_games = Len(db')
                 /\ after.house_profit_sats
                      = after.total_wagered_sats - after.total_paid_out_sats
                 /\ after.unique_players
                      = Cardinality({p \in DOMAIN PubkeyOrder :
                           \E i \in 1..Len(db') : db'[i].player_pubkey = p})
                 /\ \A i \in 1..Len(db') :
                      db'[i].payout_sats <= after.biggest_win_sats
                 /\ IF db' = <<>>
                    THEN /\ after.biggest_win_sats = 0
                         /\ after.total_wagered_sats = 0
                         /\ after.total_paid_out_sats = 0
                    ELSE \E i \in 1..Len(db') :
                           db'[i].payout_sats = after.biggest_win_sats
            /\ (Len(db') = Len(db) + 1 /\ SubSeq(db', 1, Len(db)) = db) =>
                 /\ after.total_wagered_sats
                      = before.total_wagered_sats + added.bet_sats
                 /\ after.total_paid_out_sats
                      = before.total_paid_out_sats + added.payout_sats
            /\ \A r \in Reqs :
                 /\ (/\ req[r].pc = "idle" /\ req'[r].route = "roll"
                     /\ req'[r].status \notin {400, 402, 500})
                    => /\ after.total_games = before.total_games + 1
                       /\ after.total_wagered_sats
                            = before.total_wagered_sats + req'[r].betSats
                 /\ (req[r].pc = "idle" /\ req'[r].route = "stats")
                    => req'[r].body = <<before>>
      ]_vars

\* C20 witness: GET /stats answered for a ledger of one game, a win of a
\* player.
C20_Witness ==
    \E r \in Reqs :
        /\ req[r].route = "stats" /\ req[r].status = 200
        /\ req[r].body[1].total_games = 1
        /\ req[r].body[1].unique_players = 1
        /\ req[r].body[1].biggest_win_sats > 0
        /\ req[r].body[1].total_wagered_sats = db[1].bet_sats

(***************************************************************************)
(* The dice engine called directly, as the test suite calls it.            *)
(***************************************************************************)
\* The targets of the payout table of architecture.md.
TableTargets == {32768, 16384, 8192, 49152, 60000, 1000}

\* Targets of the calls: the ends of [1, 65535], the neighbours of a roll,
\* the targets of the payout table, and every 4099th target in between.
Targets ==
    {1, 2, 626, 627, maxRoll - 1, maxRoll} \cup TableTargets
        \cup {t \in 1..maxRoll : t % 4099 = 0}

\* Stakes of the calls.
Bets == {1, 10, defaultBet, 5000}

\* The first call has any of these arguments; the other calls have the
\* arguments of the test suite, target 32768 and 100 sats.
InitDice ==
    /\ config = DefaultConfig
    /\ db = <<>>
    /\ file = [state |-> "absent", games |-> <<>>]
    /\ up = TRUE
    /\ \E target \in Targets, betSats \in Bets :
         req = [r \in Reqs |->
                  IF r = 1
                  THEN [IdleReq EXCEPT !.target = target, !.betSats = betSats]
                  ELSE [IdleReq EXCEPT !.target = defaultTarget,
                                       !.betSats = defaultBet]]

\* getMultiplier(target).
CallGetMultiplier(r) ==
    /\ req[r].pc = "idle"
    /\ req' = [req EXCEPT ![r] =
                 [@ EXCEPT !.pc = "done", !.route = "getMultiplier",
                           !.body = <<getMultiplier(config, req[r].target)>>]]
    /\ UNCHANGED <<config, db, file, up>>

\* resolveGame({target, betSats, serverSeed, clientEntropy}) with a fresh
\* seed and fresh entropy.
CallResolveGame(r) ==
    /\ req[r].pc = "idle"
    /\ \E serverSeed \in generateServerSeed, clientEntropy \in Entropies :
         req' = [req EXCEPT ![r] =
                   [@ EXCEPT !.pc = "done", !.route = "resolveGame",
                             !.body = <<resolveGame(config, req[r].target,
                                                    req[r].betSats, serverSeed,
                                                    clientEntropy)>>]]
    /\ UNCHANGED <<config, db, file, up>>

NextDice ==
    \/ \E r \in Reqs : CallGetMultiplier(r)
    \/ \E r \in Reqs : CallResolveGame(r)

SpecDice == InitDice /\ [][NextDice]_vars

\* The calls of getMultiplier and of resolveGame that have returned.
MultiplierCalls == {r \in Reqs : req[r].route = "getMultiplier"}
ResolveCalls == {r \in Reqs : req[r].route = "resolveGame"}

(***************************************************************************)
(* C21.  The multiplier formula and the payout table.                      *)
(***************************************************************************)
RECURSIVE Gcd(_, _)
Gcd(a, b) == IF b = 0 THEN a ELSE Gcd(b, a % b)

\* A rational in lowest terms.
Reduced(q) ==
    LET g == Gcd(q.num, q.den) IN [num |-> q.num \div g, den |-> q.den \div g]

\* The formula of the specification, step by step on rationals:
\* winProbability = threshold / 65536, fairMultiplier = 1 / winProbability,
\* multiplier = fairMultiplier * (1 - houseEdge).
FormulaMultiplier(edgeMilli, threshold) ==
    LET winProbability == Reduced([num |-> threshold, den |-> 65536])
        fairMultiplier ==
            [num |-> winProbability.den, den |-> winProbability.num]
        keep == Reduced([num |-> 1000 - edgeMilli, den |-> 1000])
        g1 == Gcd(fairMultiplier.num, keep.den)
        g2 == Gcd(keep.num, fairMultiplier.den)
    IN  [num |-> (fairMultiplier.num \div g1) * (keep.num \div g2),
         den |-> (fairMultiplier.den \div g2) * (keep.den \div g1)]

\* The payout table for a house edge of 0.015, in thousandths.
TableMilli ==
    (32768 :> 1970) @@ (16384 :> 3940) @@ (49152 :> 1313) @@ (8192 :> 7880)
        @@ (60000 :> 1076) @@ (1000 :> 64553)

\* C21: every call getMultiplier(target) with target in [1, 65535] returns
\* (65536 / target) * (1 - houseEdge); for the targets of the payout table
\* the value rounded to three decimals is the entry of the table; and a win
\* of 100 sats at target 32768 pays 197 sats.
C21_MultiplierFormula ==
    /\ \A r \in MultiplierCalls :
        /\ req[r].target \in 1..maxRoll
        /\ Reduced(req[r].body[1])
             = FormulaMultiplier(config.houseEdgeMilli, req[r].target)
        /\ req[r].target \in DOMAIN TableMilli
             => RoundMilli(req[r].body[1]) = TableMilli[req[r].target]
    /\ \A r \in ResolveCalls :
        LET game == req[r].body[1]
        IN  /\ game.target \in DOMAIN TableMilli
                 => game.multiplier = TableMilli[game.target]
            /\ (/\ game.target = 32768 /\ game.betSats = 100
                /\ game.result = "win")
                 => game.payoutSats = 197

\* C21 witness: getMultiplier(1000) has returned, and a stake of 100 sats
\* has won at target 32768.
C21_Witness ==
    /\ \E r \in MultiplierCalls : req[r].target = 1000
    /\ \E r \in ResolveCalls :
        /\ req[r].body[1].target = 32768 /\ req[r].body[1].betSats = 100
        /\ req[r].body[1].result = "win"

(***************************************************************************)
(* C22.  The bet ceiling at the initial bankroll.                          *)
(***************************************************************************)
\* C22: before any wager, with the bankroll at its initial 1,000,000 sats,
\* getDynamicMaxBet(bankroll) is about 5,000 sats (within a tenth of it)
\* and at least minBet.
C22_CeilingAtInitialBankroll ==
    (db = <<>> /\ Bankroll(db) = 1000000) =>
        LET ceiling == getDynamicMaxBet(config, Bankroll(db))
        IN  /\ ceiling >= 4500 /\ ceiling <= 5500
            /\ ceiling >= config.minBet

(***************************************************************************)
(* C23.  The outcome is a function of (target, stake, seed, entropy).      *)
(***************************************************************************)
\* The arguments and the outcome of every execution of resolveGame so far,
\* as GET /roll got them and as the ledger holds them.
Executions ==
    {[target |-> game.target, betSats |-> game.betSats,
      serverSeed |-> game.serverSeed, clientEntropy |-> game.clientEntropy,
      roll |-> game.roll, result |-> game.result,
      payoutSats |-> game.payoutSats,
      serverSeedHash |-> game.serverSeedHash] : game \in Resolved}
    \cup
    {[target |-> game.target, betSats |-> game.bet_sats,
      serverSeed |-> game.server_seed, clientEntropy |-> game.client_entropy,
      roll |-> game.roll, result |-> game.result,
      payoutSats |-> game.payout_sats,
      serverSeedHash |-> game.server_seed_hash] : game \in Rows}

\* C23: any two executions of resolveGame with the same target, stake, seed
\* and entropy, whatever the ledger and the player of each, have the same
\* roll, within [0, 65535], the same result and the same payout; and two
\* executions with the same seed have the same commitment.
C23_OutcomeDeterministic ==
    \A e1, e2 \in Executions :
        /\ e1.roll \in 0..maxRoll
        /\ e1.serverSeed = e2.serverSeed
             => e1.serverSeedHash = e2.serverSeedHash
        /\ (/\ e1.target = e2.target /\ e1.betSats = e2.betSats
            /\ e1.serverSeed = e2.serverSeed
            /\ e1.clientEntropy = e2.clientEntropy)
             => /\ e1.roll = e2.roll
                /\ e1.result = e2.result
                /\ e1.payoutSats = e2.payoutSats

\* C23 witness: the ledger holds two games of different players, the second
\* resolved after the first was recorded, with the same target, stake, seed
\* and entropy.
C23_Witness ==
    \E i, j \in 1..Len(db) :
        /\ i < j
        /\ db[i].player_pubkey # db[j].player_pubkey
        /\ db[i].target = db[j].target /\ db[i].bet_sats = db[j].bet_sats
        /\ db[i].server_seed = db[j].server_seed
        /\ db[i].client_entropy = db[j].client_entropy

(***************************************************************************)
(* C24.  Target 1 has the highest multiplier.                              *)
(***************************************************************************)
\* The product a * b of two numbers below 2^31 as <<high, low>>, with
\* a * b = high * 2^28 + low: the products compared below leave 32 bits.
WideMul(a, b) == MulDivRem(a, b, 268435456)

WideLeq(x, y) == x[1] < y[1] \/ (x[1] = y[1] /\ x[2] <= y[2])

\* p <= q and p < q on positive rationals.
RatLeq(p, q) == WideLeq(WideMul(p.num, q.den), WideMul(q.num, p.den))
RatLess(p, q) == ~RatLeq(q, p)

\* payout <= floor(stake * multiplier): payout is an integer, so this is
\* payout * den <= stake * num.
WithinMultiple(payout, stake, multiplier) ==
    WideLeq(WideMul(payout, multiplier.den), WideMul(stake, multiplier.num))

\* C24: for every target t of Targets, getMultiplier(t) <= getMultiplier(1)
\* and getMultiplier(t) > getMultiplier(t + 1), and of two targets the lower
\* one has the greater multiplier; and every wager of the ledger, and every
\* game GET /roll resolved, has payout <= floor(stake * getMultiplier(1)).
C24_TargetOneIsWorstCase ==
    /\ (db = <<>> /\ \A r \in Reqs : req[r].pc = "idle") =>
        \* getMultiplier is a function of the target and the configuration:
        \* its domain is gone through once, in the initial states.
        \A t \in Targets :
            /\ RatLeq(getMultiplier(config, t), getMultiplier(config, 1))
            /\ t < maxRoll => RatLess(getMultiplier(config, t + 1),
                                      getMultiplier(config, t))
            /\ \A u \in Targets :
                 t < u => RatLess(getMultiplier(config, u),
                                  getMultiplier(config, t))
    /\ \A game \in Rows :
        WithinMultiple(game.payout_sats, game.bet_sats,
                       getMultiplier(config, 1))
    /\ \A game \in Resolved :
        game.betSats # NaN =>
            WithinMultiple(game.payoutSats, game.betSats,
                           getMultiplier(config, 1))

\* C24 witness: the ledger holds a win at a low target that pays more than
\* 64 times its stake, and a win at the default target.
C24_Witness ==
    /\ \E game \in Rows :
        /\ game.result = "win" /\ game.target = 1000
        /\ game.payout_sats > 64 * game.bet_sats
    /\ \E game \in Rows :
        game.result = "win" /\ game.target = defaultTarget

(***************************************************************************)
(* C25.  The house keeps its edge.                                         *)
(***************************************************************************)
\* The payouts of a wager summed over the 65536 rolls, times 1000: the
\* rolls 0 .. target - 1 win and pay payoutSats each, the others pay 0.
PaidOverAllRolls(game) == WideMul(game.payoutSats, 1000 * game.target)

\* 65536 * stake * (1 - houseEdge), times 1000.
StakedLessEdge(game) ==
    WideMul(game.betSats, (maxRoll + 1) * (1000 - config.houseEdgeMilli))

\* C25: for the target and the stake of every call, target * floor(stake *
\* getMultiplier(target)) is at most 65536 * stake * (1 - houseEdge); and
\* every call of resolveGame with a target in [1, 65535] wins exactly
\* on the rolls below the target and pays 0 on a loss, and the payout of a
\* win summed over the 65536 rolls, target * payoutSats, is at most
\* 65536 * stake * (1 - houseEdge); for target 32768 and 100 sats the two
\* are equal.
C25_HouseKeepsEdge ==
    /\ \A r \in MultiplierCalls \cup ResolveCalls :
        \* what a win of this target and stake pays, won or not
        LET game == [target |-> req[r].target, betSats |-> req[r].betSats,
                     payoutSats |->
                         PayoutOf(req[r].betSats,
                                  getMultiplier(config, req[r].target))]
        IN  WideLeq(PaidOverAllRolls(game), StakedLessEdge(game))
    /\ \A r \in ResolveCalls :
        LET game == req[r].body[1]
        IN  /\ game.target \in 1..maxRoll
            /\ game.result = (IF game.roll < game.target THEN "win" ELSE "loss")
            /\ game.result = "loss" => game.payoutSats = 0
            /\ game.result = "win" =>
                 /\ WideLeq(PaidOverAllRolls(game), StakedLessEdge(game))
                 /\ (game.target = 32768 /\ game.betSats = 100)
                      => PaidOverAllRolls(game) = StakedLessEdge(game)

\* C25 witness: a win of 100 sats at target 32768, where the edge is exact,
\* and a win at another target, where the floor leaves the house more.
C25_Witness ==
    /\ \E r \in ResolveCalls :
        /\ req[r].body[1].result = "win"
        /\ req[r].body[1].target = 32768 /\ req[r].body[1].betSats = 100
    /\ \E r \in ResolveCalls :
        /\ req[r].body[1].result = "win"
        /\ PaidOverAllRolls(req[r].body[1]) # StakedLessEdge(req[r].body[1])

(***************************************************************************)
(* C26.  When the payout is sent.                                          *)
(***************************************************************************)
\* The requests whose handler has called sendPayout.
Paying == {r \in Reqs : req[r].payoutCalls > 0}

\* C26: a handler calls sendPayout at most once, and no two handlers call
\* it for the same game; a handler that called it has resolved a win with
\* payout > 0 and has saved it before (the ledger holds the record); and
\* every row of the ledger has payout_status n/a if it is a loss and
\* pending if it is a win.
C26_PayoutOnlyForRecordedWins ==
    /\ \A r \in Paying :
        /\ req[r].payoutCalls = 1
        /\ req[r].gameRecord.result = "win"
        /\ req[r].gameRecord.payoutSats > 0
        /\ \E i \in 1..Len(db) : SameResolution(req[r].gameRecord, db[i])
        /\ \E i, j \in 1..Len(req[r].events) :
             i < j /\ req[r].events[i] = "saved" /\ req[r].events[j] = "payout"
        /\ \A q \in Paying :
             q # r => req[q].gameRecord.id # req[r].gameRecord.id
    /\ \A game \in Rows :
        /\ game.result = "loss" => game.payout_status = "n/a"
        /\ game.result = "win" => game.payout_status = "pending"
        /\ game.result \in {"win", "loss"}

\* C26 witness: two games are recorded, a loss and a win; the payout of the
\* win was sent and nothing was sent for the loss.
C26_Witness ==
    \E r, q \in Reqs :
        /\ req[r].pc = "done" /\ req[r].status = 200 /\ req[r].payoutCalls = 1
        /\ req[q].pc = "done" /\ req[q].status = 200 /\ req[q].payoutCalls = 0
        /\ req[q].gameRecord.result = "loss"
        /\ \E i \in 1..Len(db) :
             db[i].id = req[q].gameRecord.id /\ db[i].payout_status = "n/a"
        /\ \E i \in 1..Len(db) :
             db[i].id = req[r].gameRecord.id /\ db[i].payout_status = "pending"

(***************************************************************************)
(* C27.  The table in memory and the database file.                        *)
(***************************************************************************)
\* The records initDb would load from the database file.
OnDisk == IF file.state = "db" THEN file.games ELSE <<>>

\* C27: between the handlers, so after every call of saveGame, the records
\* getGame answers from the table in memory are the records of the
\* database file.
C27_TableMatchesFile ==
    {db[i] : i \in 1..Len(db)} = {OnDisk[i] : i \in 1..Len(OnDisk)}

====
